---- MODULE Spec2Model ----
(***************************************************************************)
(* The Intcode machine of src/intcode/src/lib.rs as a state machine.       *)
(*                                                                         *)
(* The machine's fields are the variables tape, position, relative_base,   *)
(* input, output and status.  A run invocation is modelled one loop        *)
(* iteration at a time (action Step); pc tells whether the caller or the   *)
(* run loop has control, and fault records a panic of the Rust code.       *)
(*                                                                         *)
(* Conventions.                                                            *)
(*  - The tape is a TLA+ sequence, so cell i of the Vec is tape[i + 1].    *)
(*  - A usize that the code obtains by casting a negative i64 or isize     *)
(*    ("as usize") is 2^64 + v.  It is kept here as the negative number v: *)
(*    such a value is larger than every length a Vec can have, which is    *)
(*    all the code ever does with it (see UGe).                            *)
(*  - Arithmetic is done on cells within -MaxValue..MaxValue, far inside   *)
(*    the i64 range, so no i64 overflow arises within the bounds.          *)
(***************************************************************************)
EXTENDS Integers, Sequences, FiniteSets, TLC

\* ------------------------------------------------------------------ bounds
\* The longest input queue the caller builds up.
MaxQueue == 2
\* The number of values the caller gets accepted into the queue of one machine.
MaxAccepted == 3
\* The number of run invocations the caller makes on one machine.
MaxRuns == 3
\* The longest tape explored (the quine of the tests grows its tape to 200).
MaxTapeLen == 200
\* The largest magnitude of a cell or of the relative base explored.
MaxValue == 100000
\* The largest target cell the caller asks run_for_target for (it asks for
\* cell 0 or for this one).
MaxTarget == 1
\* The length of the generated initial tapes (every word from GenWords).
GenLen == 2
\* The longest output buffer explored (the quine of the tests emits 16 values).
MaxOutput == 16
\* The number of configuration calls (with_zeroth, with_init) on one machine.
MaxConfigs == 1

\* ------------------------------------------------------- integer helpers
\* Rust's i64 division, which truncates toward zero (lib.rs uses / and %).
Quot(a, b) ==
    IF a >= 0 THEN a \div b ELSE -((-a) \div b)

\* Rust's i64 remainder, which has the sign of the dividend.
Rem(a, b) ==
    a - b * Quot(a, b)

\* u >= n for a usize u and a length n, where a negative u stands for the
\* wrapped value 2^64 + u.
UGe(u, n) ==
    u < 0 \/ u >= n

\* Whether index u addresses a cell of tape t (Vec indexing panics otherwise).
InBounds(t, u) ==
    u >= 0 /\ u < Len(t)

\* The sequence of n zeroes.
Zeros(n) ==
    [i \in 1..n |-> 0]

\* Vec::resize(n, 0): truncates to n cells or pads with zeroes up to n cells.
Resize(t, n) ==
    IF n <= Len(t) THEN SubSeq(t, 1, n) ELSE t \o Zeros(n - Len(t))

\* ------------------------------------------------------- parameter modes
\* Mutant of parse_mode: a digit above 2 is taken as Immediate.
parse_mode_high_digit_immediate(i) ==
    CASE i = 0 -> "Positional"
      [] i = 2 -> "Relative"
      [] OTHER -> "Immediate"

parse_mode(i) ==
    CASE i = 1 -> "Immediate"
      [] i = 2 -> "Relative"
      [] OTHER -> "Positional"

\* The mode of the 1st parameter: the hundreds digit of the word at position.
fetch1mode(m) ==
    LET parameter_mode == Quot(m.tape[m.position + 1], 100)
    IN  parse_mode(Rem(parameter_mode, 10))

\* <<mode of the 2nd parameter, mode of the 1st parameter>>.
fetch2modes(m) ==
    LET mode1 == fetch1mode(m)
        mode2 == Quot(m.tape[m.position + 1], 1000)
    IN  <<parse_mode(Rem(mode2, 10)), mode1>>

\* <<mode of the 3rd, mode of the 2nd, mode of the 1st parameter>>.
fetch3modes(m) ==
    LET modes == fetch2modes(m)
        mode3 == Quot(m.tape[m.position + 1], 10000)
    IN  <<parse_mode(Rem(mode3, 10)), modes[1], modes[2]>>

\* ------------------------------------------------------ panics and logs
\* The machine after a panic of kind f; the first panic is the one that counts.
Panic(m, f) ==
    IF m.fault = "none" THEN [m EXCEPT !.fault = f] ELSE m

\* Records that the code indexes tape[addr] while the tape holds len cells,
\* and the content val of that cell (0 when there is no such cell).
Access(m, kind, addr) ==
    [m EXCEPT !.acc = Append(@, [kind |-> kind, addr |-> addr, len |-> Len(m.tape),
                                 val |-> IF InBounds(m.tape, addr)
                                         THEN m.tape[addr + 1] ELSE 0])]

\* Records a completed fetch_arg: the parameter slot it read (the position
\* after the increment), the mode it was called with, the address it resolved
\* and the value it returned.
Fetched(m, mode, pointer, val) ==
    [m EXCEPT !.args = Append(@, [slot |-> m.position, mode |-> mode,
                                  pointer |-> pointer, val |-> val])]

\* Records a completed fetch_dest: the parameter slot it read, the mode it was
\* called with and the address it returned.
Resolved(m, mode, addr) ==
    IF m.fault # "none" THEN m
    ELSE [m EXCEPT !.dst = Append(@, [slot |-> m.position, mode |-> mode,
                                      addr |-> addr])]

\* Mutant of Grow: the tape is resized to pointer cells.
Grow_to_pointer(m, pointer) ==
    IF ~UGe(pointer, Len(m.tape)) THEN m
    ELSE IF pointer < 0 THEN Panic(m, "capacity")
    ELSE [m EXCEPT !.tape = Resize(@, pointer),
                   !.grow = Append(@, [addr |-> pointer, before |-> m.tape,
                                       after |-> Resize(m.tape, pointer)])]

\* Mutant of Grow: the tape is resized to pointer + 1 cells.
Grow_by_need(m, pointer) ==
    IF ~UGe(pointer, Len(m.tape)) THEN m
    ELSE IF pointer < 0 THEN Panic(m, "capacity")
    ELSE [m EXCEPT !.tape = Resize(@, pointer + 1),
                   !.grow = Append(@, [addr |-> pointer, before |-> m.tape,
                                       after |-> Resize(m.tape, pointer + 1)])]

\* The growth step shared by fetch_arg and store:
\*     if pointer >= self.tape.len() { self.tape.resize(pointer * 2, 0); }
\* For a wrapped pointer, pointer * 2 overflows usize: a debug build panics on
\* the multiplication, a release build wraps it to a length no allocation can
\* have and resize panics with a capacity overflow.  Either way the run aborts.
Grow(m, pointer) ==
    IF ~UGe(pointer, Len(m.tape)) THEN m
    ELSE IF pointer < 0 THEN Panic(m, "capacity")
    ELSE [m EXCEPT !.tape = Resize(@, pointer * 2),
                   !.grow = Append(@, [addr |-> pointer, before |-> m.tape,
                                       after |-> Resize(m.tape, pointer * 2)])]

\* ---------------------------------------------------- operand fetch/store
\* Mutant of fetch_arg: Relative mode leaves the relative base out.
fetch_arg_without_base(m, mode) ==
    IF m.fault # "none" THEN [m |-> m, val |-> 0]
    ELSE
    LET m1 == [m EXCEPT !.position = @ + 1]
        m2 == IF mode = "Immediate" THEN m1 ELSE Access(m1, "param", m1.position)
        wordOk == mode = "Immediate" \/ InBounds(m1.tape, m1.position)
        pointer == CASE mode = "Positional" -> m1.tape[m1.position + 1]
                     [] mode = "Immediate" -> m1.position
                     [] mode = "Relative" -> m1.tape[m1.position + 1]
        m3 == Grow(m2, pointer)
        m4 == Access(m3, "operand", pointer)
    IN  IF ~wordOk THEN [m |-> Panic(m2, "index"), val |-> 0]
        ELSE IF m3.fault # "none" THEN [m |-> m3, val |-> 0]
        ELSE IF ~InBounds(m3.tape, pointer) THEN [m |-> Panic(m4, "index"), val |-> 0]
        ELSE [m |-> Fetched(m4, mode, pointer, m4.tape[pointer + 1]),
              val |-> m4.tape[pointer + 1]]

\* fetch_arg: returns [m |-> the machine afterwards, val |-> the value].
\* After a panic (m.fault # "none") nothing more is executed.
fetch_arg(m, mode) ==
    IF m.fault # "none" THEN [m |-> m, val |-> 0]
    ELSE
    LET m1 == [m EXCEPT !.position = @ + 1]
        \* Positional and Relative read the parameter word tape[position].
        m2 == IF mode = "Immediate" THEN m1 ELSE Access(m1, "param", m1.position)
        wordOk == mode = "Immediate" \/ InBounds(m1.tape, m1.position)
        pointer == CASE mode = "Positional" -> m1.tape[m1.position + 1]
                     [] mode = "Immediate" -> m1.position
                     [] mode = "Relative" -> m1.relative_base + m1.tape[m1.position + 1]
        m3 == Grow(m2, pointer)
        m4 == Access(m3, "operand", pointer)
    IN  IF ~wordOk THEN [m |-> Panic(m2, "index"), val |-> 0]
        ELSE IF m3.fault # "none" THEN [m |-> m3, val |-> 0]
        ELSE IF ~InBounds(m3.tape, pointer) THEN [m |-> Panic(m4, "index"), val |-> 0]
        ELSE [m |-> Fetched(m4, mode, pointer, m4.tape[pointer + 1]),
              val |-> m4.tape[pointer + 1]]

\* Mutant of fetch_dest: an Immediate destination is the parameter's own slot.
fetch_dest_in_place(m, mode) ==
    IF mode = "Positional"
    THEN LET r == fetch_arg(m, "Immediate")
         IN  [m |-> Resolved(r.m, mode, r.val), val |-> r.val]
    ELSE IF mode = "Immediate"
    THEN LET r == fetch_arg(m, "Immediate")
         IN  [m |-> Resolved(r.m, mode, r.m.position), val |-> r.m.position]
    ELSE LET r == fetch_arg(m, "Immediate")
         IN  [m |-> Resolved(r.m, mode, r.m.relative_base + r.val),
              val |-> r.m.relative_base + r.val]

\* fetch_dest: returns [m |-> the machine afterwards, val |-> the address].
fetch_dest(m, mode) ==
    IF mode \in {"Positional", "Immediate"}
    THEN LET r == fetch_arg(m, "Immediate")
         IN  [m |-> Resolved(r.m, mode, r.val), val |-> r.val]
    ELSE LET r == fetch_arg(m, "Immediate")
         IN  [m |-> Resolved(r.m, mode, r.m.relative_base + r.val),
              val |-> r.m.relative_base + r.val]

store(m, dest, value) ==
    IF m.fault # "none" THEN m
    ELSE
    LET m1 == Grow(m, dest)
        m2 == Access(m1, "store", dest)
    IN  IF m1.fault # "none" THEN m1
        ELSE IF ~InBounds(m1.tape, dest) THEN Panic(m2, "index")
        ELSE [m2 EXCEPT !.tape[dest + 1] = value]

\* Mutant of Advance: the position stays on the last parameter.
Advance_not(m) ==
    m

\* self.position += 1 at the end of an instruction (not reached after a panic).
Advance(m) ==
    IF m.fault # "none" THEN m ELSE [m EXCEPT !.position = @ + 1]

\* ------------------------------------------------------------ instructions
\* Opcodes 1, 2, 7, 8 share one shape: two operands, a destination, a result.
\* add: dest = a + b.
add(m) ==
    LET modes == fetch3modes(m)
        a == fetch_arg(m, modes[3])
        b == fetch_arg(a.m, modes[2])
        dest == fetch_dest(b.m, modes[1])
        result == a.val + b.val
    IN  Advance(store(dest.m, dest.val, result))

\* Mutant of mul: the operands are added.
mul_adds(m) ==
    LET modes == fetch3modes(m)
        a == fetch_arg(m, modes[3])
        b == fetch_arg(a.m, modes[2])
        dest == fetch_dest(b.m, modes[1])
        result == a.val + b.val
    IN  Advance(store(dest.m, dest.val, result))

\* mul: dest = a * b.
mul(m) ==
    LET modes == fetch3modes(m)
        a == fetch_arg(m, modes[3])
        b == fetch_arg(a.m, modes[2])
        dest == fetch_dest(b.m, modes[1])
        result == a.val * b.val
    IN  Advance(store(dest.m, dest.val, result))

\* Mutant of st: the position is not stepped back when the queue is empty.
st_no_rollback(m) ==
    LET mode == fetch1mode(m)
        dest == fetch_dest(m, mode)
    IN  IF dest.m.fault # "none" THEN dest.m
        ELSE IF dest.m.input # <<>>
        THEN Advance(store([dest.m EXCEPT !.input = Tail(@)], dest.val,
                           Head(dest.m.input)))
        ELSE [dest.m EXCEPT !.status = "Yield"]

\* Mutant of st: the popped value is not stored.
st_drops_value(m) ==
    LET mode == fetch1mode(m)
        dest == fetch_dest(m, mode)
    IN  IF dest.m.fault # "none" THEN dest.m
        ELSE IF dest.m.input # <<>>
        THEN Advance([dest.m EXCEPT !.input = Tail(@)])
        ELSE [dest.m EXCEPT !.status = "Yield", !.position = @ - 1]

\* st (opcode 3): the destination is fetched first, then the queue is popped;
\* on an empty queue the status becomes Yield and the position steps back by one.
st(m) ==
    LET mode == fetch1mode(m)
        dest == fetch_dest(m, mode)
    IN  IF dest.m.fault # "none" THEN dest.m
        ELSE IF dest.m.input # <<>>
        THEN Advance(store([dest.m EXCEPT !.input = Tail(@)], dest.val,
                           Head(dest.m.input)))
        ELSE [dest.m EXCEPT !.status = "Yield", !.position = @ - 1]

\* ld (opcode 4): pushes the fetched value on the output.
ld(m) ==
    LET mode == fetch1mode(m)
        out == fetch_arg(m, mode)
    IN  IF out.m.fault # "none" THEN out.m
        ELSE Advance([out.m EXCEPT !.output = Append(@, out.val)])

\* Mutant of jnz: the jump is taken when a is zero.
jnz_jumps_on_zero(m) ==
    LET modes == fetch2modes(m)
        a == fetch_arg(m, modes[2])
        b == fetch_arg(a.m, modes[1])
    IN  IF b.m.fault # "none" THEN b.m
        ELSE IF a.val = 0 THEN [b.m EXCEPT !.position = b.val]
        ELSE Advance(b.m)

\* jnz (opcode 5): both operands are fetched, then position = b if a != 0.
jnz(m) ==
    LET modes == fetch2modes(m)
        a == fetch_arg(m, modes[2])
        b == fetch_arg(a.m, modes[1])
    IN  IF b.m.fault # "none" THEN b.m
        ELSE IF a.val # 0 THEN [b.m EXCEPT !.position = b.val]
        ELSE Advance(b.m)

\* jz (opcode 6): both operands are fetched, then position = b if a == 0.
jz(m) ==
    LET modes == fetch2modes(m)
        a == fetch_arg(m, modes[2])
        b == fetch_arg(a.m, modes[1])
    IN  IF b.m.fault # "none" THEN b.m
        ELSE IF a.val = 0 THEN [b.m EXCEPT !.position = b.val]
        ELSE Advance(b.m)

\* tlt (opcode 7): dest = 1 if a < b else 0.
tlt(m) ==
    LET modes == fetch3modes(m)
        a == fetch_arg(m, modes[3])
        b == fetch_arg(a.m, modes[2])
        dest == fetch_dest(b.m, modes[1])
        result == IF a.val < b.val THEN 1 ELSE 0
    IN  Advance(store(dest.m, dest.val, result))

\* teq (opcode 8): dest = 1 if a == b else 0.
teq(m) ==
    LET modes == fetch3modes(m)
        a == fetch_arg(m, modes[3])
        b == fetch_arg(a.m, modes[2])
        dest == fetch_dest(b.m, modes[1])
        result == IF a.val = b.val THEN 1 ELSE 0
    IN  Advance(store(dest.m, dest.val, result))

\* Mutant of rel: the relative base is set to the operand.
rel_sets_base(m) ==
    LET mode == fetch1mode(m)
        base == fetch_arg(m, mode)
    IN  IF base.m.fault # "none" THEN base.m
        ELSE Advance([base.m EXCEPT !.relative_base = base.val])

\* rel (opcode 9): relative_base += base.
rel(m) ==
    LET mode == fetch1mode(m)
        base == fetch_arg(m, mode)
    IN  IF base.m.fault # "none" THEN base.m
        ELSE Advance([base.m EXCEPT !.relative_base = @ + base.val])

\* Mutant of halt: the position moves past the halt instruction.
halt_advances(m) ==
    [m EXCEPT !.status = "Halt", !.position = @ + 1]

\* halt (opcode 99).
halt(m) ==
    [m EXCEPT !.status = "Halt"]

\* Mutant of add_input: the value is queued at the front.
add_input_front(m, v) ==
    IF m.status # "Halt"
    THEN [m EXCEPT !.status = "Run", !.input = <<v>> \o @]
    ELSE m

\* Mutant of add_input: the status is not looked at.
add_input_unchecked(m, v) ==
    [m EXCEPT !.status = "Run", !.input = Append(@, v)]

\* add_input: a halted machine drops the value, any other becomes Run and
\* queues it.
add_input(m, v) ==
    IF m.status # "Halt"
    THEN [m EXCEPT !.status = "Run", !.input = Append(@, v)]
    ELSE m

\* add_inputs: add_input for each value, front to back.
RECURSIVE add_inputs(_, _)
add_inputs(m, vs) ==
    IF vs = <<>> THEN m ELSE add_inputs(add_input(m, Head(vs)), Tail(vs))

\* Mutant of run_enter: the output buffer is not cleared.
run_enter_keeps_output(m) ==
    [m EXCEPT !.status = "Run"]

\* Mutant of run_enter: a yielded machine steps over the blocked instruction.
run_enter_skips_blocked(m) ==
    IF m.status = "Yield"
    THEN [m EXCEPT !.status = "Run", !.output = <<>>, !.position = @ + 2]
    ELSE [m EXCEPT !.status = "Run", !.output = <<>>]

\* The entry of run_for_target: status = Run, output cleared.
run_enter(m) ==
    [m EXCEPT !.status = "Run", !.output = <<>>]

\* Mutant of dispatch: an unknown opcode halts the machine.
dispatch_lenient(m, opcode) ==
    CASE opcode = 1 -> add(m)
      [] opcode = 2 -> mul(m)
      [] opcode = 3 -> st(m)
      [] opcode = 4 -> ld(m)
      [] opcode = 5 -> jnz(m)
      [] opcode = 6 -> jz(m)
      [] opcode = 7 -> tlt(m)
      [] opcode = 8 -> teq(m)
      [] opcode = 9 -> rel(m)
      [] OTHER -> halt(m)

\* The match on the opcode in the loop of run_for_target.
dispatch(m, opcode) ==
    CASE opcode = 1 -> add(m)
      [] opcode = 2 -> mul(m)
      [] opcode = 3 -> st(m)
      [] opcode = 4 -> ld(m)
      [] opcode = 5 -> jnz(m)
      [] opcode = 6 -> jz(m)
      [] opcode = 7 -> tlt(m)
      [] opcode = 8 -> teq(m)
      [] opcode = 9 -> rel(m)
      [] opcode = 99 -> halt(m)
      [] OTHER -> Panic(m, "opcode")

\* One iteration of the loop of run_for_target, up to the status test: reads
\* the opcode word at position (an index panic when position is outside the
\* tape) and executes the instruction.
iteration(m) ==
    LET m1 == Access(m, "opcode", m.position)
    IN  IF ~InBounds(m.tape, m.position) THEN Panic(m1, "index")
        ELSE dispatch(m1, Rem(m.tape[m.position + 1], 100))

\* Mutant of returns: the loop returns after every instruction.
returns_after_one(m) ==
    m.fault = "none"

\* Whether the loop returns after this iteration.
returns(m) ==
    m.fault = "none" /\ m.status \in {"Halt", "Yield"}

\* The return of run_for_target once the status is Halt or Yield:
\*     return self.tape[target];
\* an index panic when target is outside the tape.
finish(m, t) ==
    LET m1 == Access(m, "target", t)
    IN  IF InBounds(m.tape, t) THEN m1 ELSE Panic(m1, "index")

\* with_zeroth: tape[0] = value (an index panic on an empty tape).
with_zeroth(m, value) ==
    IF InBounds(m.tape, 0) THEN [m EXCEPT !.tape[1] = value]
    ELSE Panic(m, "index")

\* with_init: tape[1] = noun, then tape[2] = verb (index panics on a short tape).
with_init(m, noun, verb) ==
    IF ~InBounds(m.tape, 1) THEN Panic(m, "index")
    ELSE IF ~InBounds(m.tape, 2) THEN Panic([m EXCEPT !.tape[2] = noun], "index")
    ELSE [m EXCEPT !.tape[2] = noun, !.tape[3] = verb]

\* ------------------------------------------------------------------ inputs
\* Memory images of the tests of lib.rs, each with the input values its
\* callers feed it.
Programs ==
    { [tape |-> <<1, 9, 10, 3, 2, 3, 11, 0, 99, 30, 40, 50>>, inputs |-> {}],
      [tape |-> <<1, 0, 0, 0, 99>>, inputs |-> {}],
      [tape |-> <<2, 3, 0, 3, 99>>, inputs |-> {}],
      [tape |-> <<1002, 4, 3, 4, 33>>, inputs |-> {}],
      [tape |-> <<3, 0, 4, 0, 99>>, inputs |-> {1234}],
      [tape |-> <<3, 9, 8, 9, 10, 9, 4, 9, 99, -1, 8>>, inputs |-> {5, 8}],
      [tape |-> <<3, 9, 7, 9, 10, 9, 4, 9, 99, -1, 8>>, inputs |-> {5, 80}],
      [tape |-> <<3, 3, 1108, -1, 8, 3, 4, 3, 99>>, inputs |-> {8, 9}],
      [tape |-> <<3, 3, 1107, -1, 8, 3, 4, 3, 99>>, inputs |-> {5, 9}],
      [tape |-> <<3, 12, 6, 12, 15, 1, 13, 14, 13, 4, 13, 99, -1, 0, 1, 9>>,
       inputs |-> {0, 999}],
      [tape |-> <<3, 3, 1105, -1, 9, 1101, 0, 0, 12, 4, 12, 99, 1>>,
       inputs |-> {0, 999}],
      [tape |-> <<109, 2000, 109, 19, 99>>, inputs |-> {}],
      [tape |-> <<109, 21, 204, -19, 99>>, inputs |-> {}],
      [tape |-> <<109, 1, 204, -1, 1001, 100, 1, 100, 1008, 100, 16, 101,
                  1006, 101, 0, 99>>, inputs |-> {}] }

\* Further memory images a caller can hand to new: programs that output
\* before and after blocking, read several inputs, loop, address cells
\* beyond the tape, carry mode digits above 2, or write through an
\* Immediate-mode destination.
Scenarios ==
    { [tape |-> <<104, 7, 3, 0, 4, 0, 3, 1, 4, 1, 99>>, inputs |-> {1}],
      [tape |-> <<3, 0, 3, 1, 4, 0, 4, 1, 99>>, inputs |-> {1, 2}],
      [tape |-> <<3, 7, 4, 7, 1105, 1, 0, 0>>, inputs |-> {1}],
      [tape |-> <<1001, 7, 1000, 7, 1105, 1, 0, 0>>, inputs |-> {}],
      [tape |-> <<4, 12, 1001, 30, 5, 70, 4, 70, 99>>, inputs |-> {}],
      [tape |-> <<109, 10, 203, 5, 204, 5, 21101, 2, 3, 40, 99>>, inputs |-> {3}],
      [tape |-> <<1105, 1, 7, 99>>, inputs |-> {}],
      [tape |-> <<1106, 0, -1, 99>>, inputs |-> {}],
      [tape |-> <<3, -1, 99>>, inputs |-> {1}],
      [tape |-> <<109, -5, 204, 1, 99>>, inputs |-> {}],
      [tape |-> <<104, 1, 55, 99>>, inputs |-> {}],
      [tape |-> <<109, 1, 93301, 11, 12, 13, 71201, 10, 2, 14, 99, 20, 22, 0, 0>>,
       inputs |-> {}],
      [tape |-> <<11101, 2, 3, 7, 103, 8, 99, 0, 0>>, inputs |-> {5}] }

\* The words of the generated tapes: operands, opcodes, unknown opcodes.
GenWords ==
    {-1, 0, 1, 3, 4, 99}

\* Every tape of at most GenLen words of GenWords, fed the input 1.
Generated ==
    { [tape |-> t, inputs |-> {1}] :
        t \in UNION { [1..n -> GenWords] : n \in 0..GenLen } }

\* The values the caller configures cells 0, 1 and 2 with.
ConfigValues ==
    {99}

\* ------------------------------------------------------------------- state
VARIABLES
    tape, position, relative_base, input, output, status,
    pc, fault, target, ret,
    image, alphabet, runs, accepted, stored, emitted, ended, entry,
    shadow, pre, last, acc, grow, iter, args, dst, touched, configs

vars ==
    <<tape, position, relative_base, input, output, status,
      pc, fault, target, ret,
      image, alphabet, runs, accepted, stored, emitted, ended, entry,
      shadow, pre, last, acc, grow, iter, args, dst, touched, configs>>

\* The machine as the operators above take it: its six fields, no panic so
\* far, and the empty logs of the step about to be taken.
Self ==
    [tape |-> tape, position |-> position, relative_base |-> relative_base,
     input |-> input, output |-> output, status |-> status,
     fault |-> "none", acc |-> <<>>, grow |-> <<>>, args |-> <<>>, dst |-> <<>>]

\* The six fields of the machine, as remembered in pre and entry.
Fields ==
    [tape |-> tape, position |-> position, relative_base |-> relative_base,
     input |-> input, output |-> output, status |-> status]

\* The machine m becomes the state.
Install(m) ==
    /\ tape' = m.tape
    /\ position' = m.position
    /\ relative_base' = m.relative_base
    /\ input' = m.input
    /\ output' = m.output
    /\ status' = m.status
    /\ fault' = m.fault
    /\ acc' = m.acc
    /\ grow' = m.grow
    /\ args' = m.args
    /\ dst' = m.dst

\* The part of the machine's behaviour that is explored.
WithinBounds(m) ==
    /\ Len(m.tape) <= MaxTapeLen
    /\ Len(m.output) <= MaxOutput
    /\ m.relative_base \in -MaxValue..MaxValue
    /\ \A i \in 1..Len(m.tape) : m.tape[i] \in -MaxValue..MaxValue

\* The zero-default view of a memory: cell a of t, 0 for a cell beyond t.
Word(t, a) ==
    IF a >= 0 /\ a < Len(t) THEN t[a + 1] ELSE 0

\* The decimal digit of word w that selects the mode of parameter k.
ModeDigit(w, k) ==
    (w \div (IF k = 1 THEN 100 ELSE IF k = 2 THEN 1000 ELSE 10000)) % 10

\* The address parameter k of the instruction at m.position names as its
\* destination, by the instruction set's definition.
RefDest(m, k) ==
    LET p == Word(m.tape, m.position + k)
    IN  IF ModeDigit(m.tape[m.position + 1], k) = 2 THEN m.relative_base + p ELSE p

\* The value parameter k of the instruction at m.position denotes, by the
\* instruction set's definition.
RefOperand(m, k) ==
    LET p == Word(m.tape, m.position + k)
        d == ModeDigit(m.tape[m.position + 1], k)
    IN  CASE d = 1 -> p
          [] d = 2 -> Word(m.tape, m.relative_base + p)
          [] OTHER -> Word(m.tape, p)

\* The value the instruction at m.position writes to its destination, by the
\* instruction set's definition (opcodes 1, 2, 3, 7, 8).
RefResult(m, opcode) ==
    CASE opcode = 1 -> RefOperand(m, 1) + RefOperand(m, 2)
      [] opcode = 2 -> RefOperand(m, 1) * RefOperand(m, 2)
      [] opcode = 3 -> Head(m.input)
      [] opcode = 7 -> IF RefOperand(m, 1) < RefOperand(m, 2) THEN 1 ELSE 0
      [] opcode = 8 -> IF RefOperand(m, 1) = RefOperand(m, 2) THEN 1 ELSE 0

\* The memory f with value v written at address d.
Written(f, d, v) ==
    [a \in DOMAIN f \cup {d} |-> IF a = d THEN v ELSE f[a]]

\* The cells of tape t as a memory: address |-> value.
Cells(t) ==
    [a \in 0..(Len(t) - 1) |-> t[a + 1]]

\* The opcode of the word at the position, as a one-element sequence (empty
\* when the position is outside the tape).
OpcodeAt(m) ==
    IF InBounds(m.tape, m.position) THEN <<Rem(m.tape[m.position + 1], 100)>> ELSE <<>>

\* ----------------------------------------------------------------- actions
\* new(tape): position 0, relative base 0, status Run, empty queues.
Init ==
    /\ \E p \in Programs \cup Scenarios \cup Generated :
         /\ tape = p.tape
         /\ image = p.tape
         /\ alphabet = p.inputs
    /\ position = 0
    /\ relative_base = 0
    /\ input = <<>>
    /\ output = <<>>
    /\ status = "Run"
    /\ pc = "new"
    /\ fault = "none"
    /\ target = 0
    /\ ret = [cell |-> 0, out |-> <<>>]
    /\ runs = 0
    /\ accepted = <<>>
    /\ stored = <<>>
    /\ emitted = <<>>
    /\ ended = "none"
    /\ entry = [tape |-> tape, position |-> 0, relative_base |-> 0,
                input |-> <<>>, output |-> <<>>, status |-> "Run",
                ended |-> "none", touched |-> FALSE]
    /\ shadow = Cells(tape)
    /\ pre = [tape |-> tape, position |-> 0, relative_base |-> 0,
              input |-> <<>>, output |-> <<>>, status |-> "Run"]
    /\ last = [op |-> "new", arg |-> <<>>]
    /\ acc = <<>>
    /\ grow = <<>>
    /\ iter = 0
    /\ args = <<>>
    /\ dst = <<>>
    /\ touched = FALSE
    /\ configs = 0

\* What a call made by the caller (not a loop iteration) leaves alone.
CallerFrame ==
    UNCHANGED <<target, ret, alphabet, runs, stored, emitted, ended, entry, iter>>

\* The memory f after with_zeroth(value) on a tape of n cells.
ZerothWritten(f, n, value) ==
    IF n > 0 THEN Written(f, 0, value) ELSE f

\* The memory f after with_init(noun, verb) on a tape of n cells: the write of
\* noun happens even when the write of verb then panics.
InitWritten(f, n, noun, verb) ==
    IF n > 2 THEN Written(Written(f, 1, noun), 2, verb)
    ELSE IF n > 1 THEN Written(f, 1, noun)
    ELSE f

\* with_zeroth(value): a public method, callable on the builder and on a
\* machine that has run (it takes and returns the machine by value).
WithZeroth ==
    /\ pc \in {"new", "idle"}
    /\ configs < MaxConfigs
    /\ \E value \in ConfigValues :
         LET m == with_zeroth(Self, value)
         IN  /\ Install(m)
             /\ image' = m.tape
             /\ shadow' = ZerothWritten(shadow, Len(tape), value)
             /\ pc' = IF m.fault = "none" THEN pc ELSE "aborted"
             /\ last' = [op |-> "config", arg |-> <<value>>]
    /\ pre' = Fields
    /\ touched' = TRUE
    /\ configs' = configs + 1
    /\ UNCHANGED accepted
    /\ CallerFrame

\* with_init(noun, verb): a public method, callable on the builder and on a
\* machine that has run.
WithInit ==
    /\ pc \in {"new", "idle"}
    /\ configs < MaxConfigs
    /\ \E noun \in ConfigValues, verb \in ConfigValues :
         LET m == with_init(Self, noun, verb)
         IN  /\ Install(m)
             /\ image' = m.tape
             /\ shadow' = InitWritten(shadow, Len(tape), noun, verb)
             /\ pc' = IF m.fault = "none" THEN pc ELSE "aborted"
             /\ last' = [op |-> "config", arg |-> <<noun, verb>>]
    /\ pre' = Fields
    /\ touched' = TRUE
    /\ configs' = configs + 1
    /\ UNCHANGED accepted
    /\ CallerFrame

\* The values accepted into the queue by a call that feeds vs to m.
Accepted(m, vs) ==
    IF m.status # "Halt" THEN vs ELSE <<>>

\* add_input(v), or with_input(v), which is add_input on the builder.
AddInput ==
    /\ pc \in {"new", "idle"}
    /\ Len(input) < MaxQueue
    /\ Len(accepted) < MaxAccepted
    /\ \E v \in alphabet :
         /\ Install(add_input(Self, v))
         /\ accepted' = accepted \o Accepted(Self, <<v>>)
         /\ last' = [op |-> "add_input", arg |-> <<v>>]
    /\ pre' = Fields
    /\ UNCHANGED <<pc, image, shadow, touched, configs>>
    /\ CallerFrame

\* add_inputs(vs), or with_inputs(vs), which is add_inputs on the builder.
AddInputs ==
    /\ pc \in {"new", "idle"}
    /\ \E n \in 0..MaxQueue :
         /\ n <= MaxQueue - Len(input)
         /\ n <= MaxAccepted - Len(accepted)
         /\ \E vs \in [1..n -> alphabet] :
              /\ Install(add_inputs(Self, vs))
              /\ accepted' = accepted \o Accepted(Self, vs)
              /\ last' = [op |-> "add_input", arg |-> vs]
    /\ pre' = Fields
    /\ UNCHANGED <<pc, image, shadow, touched, configs>>
    /\ CallerFrame

\* The entry of run_for_target(t).
Enter(t) ==
    /\ pc \in {"new", "idle"}
    /\ runs < MaxRuns
    /\ Install(run_enter(Self))
    /\ pc' = "loop"
    /\ target' = t
    /\ runs' = runs + 1
    /\ entry' = [tape |-> tape, position |-> position,
                 relative_base |-> relative_base, input |-> input,
                 output |-> output, status |-> status, ended |-> ended,
                 touched |-> touched]
    /\ touched' = FALSE
    /\ pre' = Fields
    /\ last' = [op |-> "run", arg |-> <<t>>]
    /\ emitted' = <<>>
    /\ iter' = 0
    /\ UNCHANGED <<ret, image, alphabet, accepted, stored, ended, shadow, configs>>

\* run(): run_for_target(0), then the output buffer is returned (ret.out).
Run ==
    Enter(0)

\* run_for_target(t), for the first cell or the cell at MaxTarget: the cell
\* at t is returned (ret.cell).
RunForTarget ==
    \E t \in {0, MaxTarget} : Enter(t)

\* One iteration of the loop of run_for_target, with the return that ends
\* the invocation when the status has become Halt or Yield.
Step ==
    /\ pc = "loop"
    /\ \E m \in {iteration(Self)} :
       \E mf \in {IF returns(m) THEN finish(m, target) ELSE m} :
       \E op \in {OpcodeAt(Self)} :
       LET back == returns(m)
           done == mf.fault = "none"
       IN  /\ WithinBounds(mf)
           /\ Install(mf)
           /\ pc' = IF ~done THEN "aborted" ELSE IF back THEN "idle" ELSE "loop"
           /\ ret' = IF back /\ done
                     THEN [cell |-> mf.tape[target + 1], out |-> mf.output]
                     ELSE ret
           /\ ended' = IF back /\ done THEN mf.status ELSE ended
           /\ emitted' = IF done /\ op = <<4>>
                         THEN Append(emitted, RefOperand(Self, 1))
                         ELSE emitted
           /\ stored' = IF done /\ op = <<3>> /\ input # <<>>
                        THEN Append(stored, Word(mf.tape, RefDest(Self, 1)))
                        ELSE stored
           /\ shadow' = IF done /\ op \in {<<1>>, <<2>>, <<7>>, <<8>>}
                        THEN Written(shadow, RefDest(Self, 3), RefResult(Self, op[1]))
                        ELSE IF done /\ op = <<3>> /\ input # <<>>
                        THEN Written(shadow, RefDest(Self, 1), RefResult(Self, 3))
                        ELSE shadow
           /\ last' = [op |-> "step", arg |-> op]
    /\ pre' = Fields
    /\ iter' = IF iter < 2 THEN iter + 1 ELSE iter
    /\ UNCHANGED <<target, image, alphabet, runs, accepted, entry, touched, configs>>

Next ==
    \/ WithZeroth
    \/ WithInit
    \/ AddInput
    \/ AddInputs
    \/ Run
    \/ RunForTarget
    \/ Step

Spec ==
    Init /\ [][Next]_vars

\* ============================================================== properties
\* The last action was a loop iteration that executed an instruction of
\* opcode o.
Executed(o) ==
    last.op = "step" /\ last.arg = <<o>>

\* Every cell the tape had in state f still holds the value it had.
CellsKept(f) ==
    /\ Len(tape) >= Len(f.tape)
    /\ \A i \in 1..Len(f.tape) : tape[i] = f.tape[i]

\* No configuration helper has rewritten memory since the machine last
\* stopped: none between the return of the previous invocation and the entry
\* of the current one, and none since.  (with_zeroth and with_init are writes
\* of the caller into the program; the claims about what add_input and run do
\* to a stopped machine speak of callers that make no such write in between.)
Untouched ==
    ~entry.touched /\ ~touched

\* The invocation has come back to the caller, as it does when the loop
\* stops and the cell at target exists (run() asks for cell 0).
Returned ==
    pc = "idle" /\ fault = "none"

\* The loop has stopped and the invocation returns; the one thing that can
\* still keep the value from the caller is a target outside the tape.
LoopStopped ==
    /\ pc # "loop"
    /\ InBounds(tape, target) => Returned

\* C1: an input instruction (opcode 3) met with an empty queue ends the
\* invocation with status Yield and the position on the instruction's opcode
\* word; the instruction appends nothing to the output and leaves every
\* existing cell, the relative base and the input queue as they were.
C1_BlockedInputYields ==
    (Executed(3) /\ pre.input = <<>>) =>
        /\ status = "Yield"
        /\ LoopStopped
        /\ position = pre.position
        /\ tape[position + 1] = pre.tape[pre.position + 1]
        /\ output = pre.output
        /\ CellsKept(pre)
        /\ relative_base = pre.relative_base
        /\ input = pre.input

\* C1 witness: a run that had produced output has yielded on an input
\* instruction that is not the first word of the tape.
C1_Witness ==
    /\ Executed(3) /\ pre.input = <<>>
    /\ Returned /\ status = "Yield"
    /\ position > 0 /\ output # <<>>

\* C2 (a): add_input(v) on a yielded machine sets the status to Run and
\* appends v to the queue; it leaves the machine on the blocked instruction
\* (which is still there unless a configuration helper has overwritten it).
C2_InputReopens ==
    (last.op = "add_input" /\ pre.status = "Yield" /\ last.arg # <<>>) =>
        /\ status = "Run"
        /\ input = pre.input \o last.arg
        /\ position = pre.position
        /\ tape = pre.tape
        /\ ~touched => Word(tape, position) % 100 = 3

\* The first iteration of an invocation that follows a yield and the supply
\* of at least one value, with no configuration call in between.
Resumed ==
    /\ entry.ended = "Yield" /\ entry.input # <<>>
    /\ ~entry.touched
    /\ last.op = "step" /\ iter = 1

\* C2 (b): the first iteration after the resume executes the input
\* instruction at the position the machine yielded at, stores the oldest
\* queued value at its destination and goes on with the next instruction.
C2_ResumeRetriesInput ==
    Resumed =>
        /\ pre.position = entry.position
        /\ last.arg = <<3>>
        /\ RefDest(pre, 1) >= 0 =>
             /\ fault = "none"
             /\ pc = "loop"
             /\ status = "Run"
             /\ Word(tape, RefDest(pre, 1)) = Head(entry.input)
             /\ input = Tail(entry.input)
             /\ position = entry.position + 2

\* The tape of the test of blocking and resuming.
EchoTape ==
    <<3, 0, 4, 0, 99>>

\* C2 (c): tape [3,0,4,0,99] with no seeded input is Yield with no output
\* after the first run, and Halt with output [1234] after add_input(1234) and
\* a second run.
C2_EchoExample ==
    image = EchoTape =>
        /\ fault = "none"
        /\ (runs = 1 /\ pc = "idle" /\ accepted = <<>>) =>
             (status = "Yield" /\ output = <<>> /\ ret.out = <<>>)
        /\ (runs = 2 /\ pc = "idle" /\ entry.ended = "Yield" /\ entry.input = <<1234>>) =>
             (status = "Halt" /\ output = <<1234>> /\ ret.out = <<1234>>)

\* C2: a yielded machine that is given a value resumes at the input
\* instruction that blocked: (a), (b) and (c) together.
C2_YieldResume ==
    C2_InputReopens /\ C2_ResumeRetriesInput /\ C2_EchoExample

\* C2 witness: the echo program has gone through yield, add_input(1234) and a
\* second run.
C2_Witness ==
    /\ image = EchoTape
    /\ runs = 2 /\ Returned /\ entry.ended = "Yield" /\ entry.input = <<1234>>
    /\ status = "Halt" /\ output = <<1234>>

\* C3: a run invocation on a halted machine executes the halt instruction
\* again and nothing else: no cell, neither the position nor the relative base
\* changes, the output buffer is empty and the status is Halt when it returns,
\* however often it is repeated and whatever add_input calls come between.
C3_HaltedRunIsNoOp ==
    (runs >= 1 /\ entry.status = "Halt" /\ Untouched) =>
        /\ tape = entry.tape
        /\ position = entry.position
        /\ relative_base = entry.relative_base
        /\ input = entry.input
        /\ output = <<>>
        /\ fault = "none" => (iter = 0 /\ pc = "loop") \/ (iter = 1 /\ Returned)
        /\ pc # "loop" =>
             /\ status = "Halt"
             /\ iter = 1
             /\ Executed(99) \/ last.op = "add_input"
             /\ LoopStopped
             /\ Returned => ret.out = <<>>

\* C3 witness: the third invocation on a machine that halted in the first and
\* was offered input since has returned.
C3_Witness ==
    /\ runs = 3 /\ entry.status = "Halt" /\ entry.ended = "Halt"
    /\ Untouched
    /\ Returned /\ Executed(99)
    /\ accepted # <<>>
    /\ Len(tape) > 1

\* C4: add_input (so add_inputs, with_input, with_inputs too) on a halted
\* machine drops the values, queue and status staying as they were; on a
\* machine that is Run or Yield it appends them at the back of the queue.
C4_HaltedDropsInput ==
    last.op = "add_input" =>
        IF pre.status = "Halt"
        THEN input = pre.input /\ status = "Halt"
        ELSE input = pre.input \o last.arg /\ status # "Halt"

\* C4 witness: a value was offered to a halted machine whose queue still
\* held a value.
C4_Witness ==
    /\ last.op = "add_input" /\ pre.status = "Halt"
    /\ last.arg # <<>> /\ pre.input # <<>>
    /\ input = pre.input

\* C5: the output buffer holds, and run returns, exactly the values the
\* output instructions of the current invocation emitted, in order; nothing
\* emitted by an earlier invocation is left in it.
C5_OutputOfThisRun ==
    /\ pc = "loop" => output = emitted
    /\ Returned => (output = emitted /\ ret.out = emitted)

\* C5 witness: an invocation returned its own output after an earlier one had
\* emitted a different value and yielded.
C5_Witness ==
    /\ Returned /\ runs >= 2
    /\ entry.ended = "Yield" /\ entry.output # <<>>
    /\ emitted # <<>> /\ ret.out = emitted
    /\ emitted[1] # entry.output[1]

\* C6: the queue is first-in-first-out: the values stored by the completed
\* input instructions are, in order, the first values ever accepted, the
\* queue holds the accepted values not yet stored, in order, and no
\* instruction but a completed input instruction changes the queue.
C6_FifoQueue ==
    /\ pc # "aborted" =>
         /\ Len(stored) <= Len(accepted)
         /\ stored = SubSeq(accepted, 1, Len(stored))
         /\ input = SubSeq(accepted, Len(stored) + 1, Len(accepted))
    /\ (Executed(3) /\ pre.input # <<>> /\ fault = "none") =>
         input = Tail(pre.input)
    /\ (last.op = "step" /\ last.arg # <<3>>) => input = pre.input

\* C6 witness: two different values were stored in the order they were
\* accepted, over two invocations, and a third is waiting.
C6_Witness ==
    /\ pc # "aborted" /\ runs >= 2
    /\ Len(stored) = 2 /\ stored[1] # stored[2]
    /\ input # <<>>

\* The access a was made inside the tape.
Inside(a) ==
    a.addr >= 0 /\ a.addr < a.len

\* C7 (as claimed): on a non-empty initial tape a run indexes the tape only
\* inside it (the opcode word, the parameter words, the operand and
\* destination cells, grown first where needed), and aborts on an unknown
\* opcode only.
C7_NoAccessOutsideTape ==
    (image # <<>> /\ last.op = "step") =>
        /\ \A i \in 1..Len(acc) : acc[i].kind # "target" => Inside(acc[i])
        /\ \/ fault \in {"none", "opcode"}
           \/ acc # <<>> /\ acc[Len(acc)].kind = "target"

\* C8: a fetch or a store at a non-negative address does not fail, wherever
\* the address lies; a fetch beyond the tape returns 0, a cell never written
\* holds 0, and a cell that was written holds the value last written to it.
C8_GrowthProperty ==
    /\ \A i \in 1..Len(acc) :
         /\ (acc[i].kind \in {"operand", "store"} /\ acc[i].addr >= 0) => Inside(acc[i])
         /\ (acc[i].kind = "operand" /\ acc[i].addr >= Len(pre.tape)) => acc[i].val = 0
    /\ \A i \in 1..Len(grow) : grow[i].addr < Len(grow[i].after)
    /\ \A a \in DOMAIN shadow : a >= 0 /\ a < Len(tape)
    /\ \A a \in 0..(Len(tape) - 1) :
         tape[a + 1] = IF a \in DOMAIN shadow THEN shadow[a] ELSE 0

\* C8 witness: a fetch beyond the initial tape returned the non-zero value an
\* earlier instruction had stored there.
C8_Witness ==
    /\ fault = "none"
    /\ \E i \in 1..Len(acc) :
         /\ acc[i].kind = "operand"
         /\ acc[i].addr >= Len(image)
         /\ acc[i].val # 0

\* The resize g zero-fills the new cells and keeps the old ones.
GrowthKeepsCells(g) ==
    /\ Len(g.after) >= Len(g.before)
    /\ \A i \in 1..Len(g.before) : g.after[i] = g.before[i]
    /\ \A i \in (Len(g.before) + 1)..Len(g.after) : g.after[i] = 0

\* C9 (as claimed): a growth for address a leaves at least 2*a + 1 cells,
\* zero-fills the new cells and keeps the old ones; the tape never shrinks.
C9_GrowthToTwiceAddressPlusOne ==
    /\ \A i \in 1..Len(grow) :
         /\ Len(grow[i].after) >= 2 * grow[i].addr + 1
         /\ GrowthKeepsCells(grow[i])
    /\ Len(tape) >= Len(pre.tape)

\* C9 (amended): a growth for address a leaves exactly 2*a cells, which is
\* more than a since a is at least 1; it zero-fills the new cells and keeps
\* the old ones; no operation of the machine shrinks the tape.
C9_GrowthToTwiceAddress ==
    /\ \A i \in 1..Len(grow) :
         /\ grow[i].addr >= Len(grow[i].before)
         /\ grow[i].addr >= 1
         /\ Len(grow[i].after) = 2 * grow[i].addr
         /\ grow[i].addr < Len(grow[i].after)
         /\ GrowthKeepsCells(grow[i])
    /\ Len(tape) >= Len(pre.tape)

\* C9 witness: an instruction grew the tape twice, for a fetch and for its
\* store, and completed.
C9_Witness ==
    /\ last.op = "step" /\ fault = "none"
    /\ Len(grow) = 2
    /\ Len(tape) = 2 * grow[2].addr
    /\ Len(tape) > Len(pre.tape)

\* The opcodes of the instruction set.
KnownOpcodes ==
    {1, 2, 3, 4, 5, 6, 7, 8, 9, 99}

\* C10: a word whose opcode is not in the instruction set aborts the run at
\* once: tape, position, relative base, queue and output stay as they were,
\* nothing is executed after it, and the run does not return Halt or Yield.
C10_UnknownOpcodeAborts ==
    (last.op = "step" /\ last.arg # <<>> /\ last.arg[1] \notin KnownOpcodes) =>
        /\ pc = "aborted"
        /\ fault = "opcode"
        /\ ~ENABLED Next
        /\ tape = pre.tape
        /\ position = pre.position
        /\ relative_base = pre.relative_base
        /\ input = pre.input
        /\ output = pre.output
        /\ status = "Run"

\* C10 witness: a run that had moved on and produced output aborted on an
\* unknown opcode.
C10_Witness ==
    /\ fault = "opcode" /\ pc = "aborted"
    /\ position > 0 /\ output # <<>>
    /\ last.arg[1] \notin KnownOpcodes

\* The value a fetch in the given mode denotes for the parameter word p, by
\* the instruction set's definition, in the memory of state f.
RefFetch(f, mode, p) ==
    CASE mode = "Positional" -> Word(f.tape, p)
      [] mode = "Immediate" -> p
      [] mode = "Relative" -> Word(f.tape, f.relative_base + p)

\* C11 (a): every fetch-as-value an instruction completed returned, for the
\* parameter word p it read: the cell at p in Positional mode, p itself in
\* Immediate mode, the cell at relative base + p in Relative mode.
C11_FetchByMode ==
    \A i \in 1..Len(args) :
        args[i].val = RefFetch(pre, args[i].mode, Word(pre.tape, args[i].slot))

\* The self-replicating program of the tests.
QuineTape ==
    <<109, 1, 204, -1, 1001, 100, 1, 100, 1008, 100, 16, 101, 1006, 101, 0, 99>>

\* The relative-mode output program of the tests.
RelativeTape ==
    <<109, 21, 204, -19, 99>>

\* C11 (b): the self-replicating program run to completion outputs its own
\* initial tape, and [109,21,204,-19,99] outputs [204] with relative base 21.
C11_Examples ==
    /\ image \in {QuineTape, RelativeTape} => fault = "none"
    /\ (image = QuineTape /\ runs = 1 /\ pc = "idle") =>
         (status = "Halt" /\ output = image /\ ret.out = image)
    /\ (image = RelativeTape /\ runs = 1 /\ pc = "idle") =>
         (status = "Halt" /\ ret.out = <<204>> /\ relative_base = 21)

\* C11: fetch-as-value returns tape[p], p or tape[relative_base + p] by the
\* mode, so that the two relative-mode programs of the tests output what the
\* tests expect: (a) and (b) together.
C11_FetchAsValue ==
    C11_FetchByMode /\ C11_Examples

\* C11 witness: the self-replicating program has halted in its first run and
\* handed back its own tape as output.
C11_Witness ==
    /\ image = QuineTape /\ runs = 1 /\ Returned /\ status = "Halt"
    /\ output = QuineTape

\* The mode a mode digit d selects, by the instruction set's definition.
RefMode(d) ==
    IF d = 1 THEN "Immediate" ELSE IF d = 2 THEN "Relative" ELSE "Positional"

\* The parameter slot s is the destination slot of the last instruction.
DestSlot(s) ==
    \E j \in 1..Len(dst) : dst[j].slot = s

\* C12 (a): the mode every parameter of an executed instruction was fetched
\* in is the one its own digit of the instruction word selects: parameter k
\* by the hundreds (k = 1), thousands (k = 2) or ten-thousands (k = 3) digit,
\* 1 for Immediate, 2 for Relative, any other digit for Positional.
C12_ModeOfEachParameter ==
    LET w == Word(pre.tape, pre.position)
    IN  /\ \A i \in 1..Len(args) :
             /\ args[i].slot = pre.position + i
             /\ ~DestSlot(args[i].slot) =>
                  args[i].mode = RefMode(ModeDigit(w, i))
        /\ \A j \in 1..Len(dst) :
             /\ dst[j].slot = pre.position + Len(args)
             /\ dst[j].mode = RefMode(ModeDigit(w, Len(args)))

\* The mixed-mode program of the tests.
MixedModeTape ==
    <<1002, 4, 3, 4, 33>>

\* C12 (b): tape [1002,4,3,4,33] run to completion leaves cell 4 = 99.
C12_Example ==
    /\ image = MixedModeTape => fault = "none"
    /\ (image = MixedModeTape /\ runs = 1 /\ pc = "idle") =>
         (status = "Halt" /\ Word(tape, 4) = 99 /\ position = 4)

\* C12: the hundreds, thousands and ten-thousands digits of the instruction
\* word select the modes of the 1st, 2nd and 3rd parameter, each on its own;
\* a digit other than 1 and 2 selects Positional and the decoding never
\* fails: (a) and (b) together.
C12_ModeDecoding ==
    C12_ModeOfEachParameter /\ C12_Example

\* C12 witness: an instruction with three different modes, the third from a
\* digit above 2, has completed.
C12_Witness ==
    /\ last.op = "step" /\ fault = "none"
    /\ Len(args) = 3 /\ Len(dst) = 1
    /\ args[1].mode = "Relative" /\ args[2].mode = "Immediate"
    /\ dst[1].mode = "Positional"
    /\ ModeDigit(Word(pre.tape, pre.position), 3) > 2

\* The opcodes that compute a result from two operands and write it.
BinaryOpcodes ==
    {1, 2, 7, 8}

\* Every cell the tape had in state f, but the one at address d, still holds
\* the value it had, and every cell the tape has gained, but d, holds 0.
CellsKeptBut(f, d) ==
    /\ Len(tape) >= Len(f.tape)
    /\ \A a \in 0..(Len(tape) - 1) : a # d => tape[a + 1] = Word(f.tape, a)

\* C13 (a): a completed instruction of opcode 1, 2, 7 or 8 has written a + b,
\* a * b, (1 if a < b else 0) or (1 if a = b else 0) to its destination cell,
\* a and b being its operands by their modes; no other cell has changed its
\* value, nor has the relative base, the input queue or the output buffer.
C13_ResultWritten ==
    \A o \in BinaryOpcodes :
        (Executed(o) /\ fault = "none") =>
            /\ Len(tape) > RefDest(pre, 3)
            /\ Word(tape, RefDest(pre, 3)) = RefResult(pre, o)
            /\ CellsKeptBut(pre, RefDest(pre, 3))
            /\ relative_base = pre.relative_base
            /\ input = pre.input
            /\ output = pre.output
            /\ status = pre.status

\* C13 (b): [1,0,0,0,99] ends with cell 0 = 2 and [2,3,0,3,99] with cell 3 = 6.
C13_Examples ==
    /\ image \in {<<1, 0, 0, 0, 99>>, <<2, 3, 0, 3, 99>>} => fault = "none"
    /\ (image = <<1, 0, 0, 0, 99>> /\ runs = 1 /\ pc = "idle") =>
         (status = "Halt" /\ tape = <<2, 0, 0, 0, 99>> /\ ret.cell = Word(tape, target))
    /\ (image = <<2, 3, 0, 3, 99>> /\ runs = 1 /\ pc = "idle") =>
         (status = "Halt" /\ tape = <<2, 3, 0, 6, 99>>)

\* C13: opcodes 1, 2, 7 and 8 write their result to the destination cell and
\* change nothing else: (a) and (b) together.
C13_ArithmeticAndCompare ==
    C13_ResultWritten /\ C13_Examples

\* C13 witness: a less-than instruction has written 1 over a cell that held
\* another value.
C13_Witness ==
    /\ Executed(7) /\ fault = "none"
    /\ Word(tape, RefDest(pre, 3)) = 1
    /\ Word(pre.tape, RefDest(pre, 3)) # 1
    /\ RefOperand(pre, 1) < RefOperand(pre, 2)

\* The last instruction changed no cell value (the tape may have gained zero
\* cells), nor the relative base, the queues or the status.
OnlyPointerMoved ==
    /\ CellsKeptBut(pre, -1)
    /\ relative_base = pre.relative_base
    /\ input = pre.input
    /\ output = pre.output
    /\ status = pre.status

\* C14 (a): a completed opcode 5 has set the position to its second operand b
\* when its first operand a is non-zero, and to the word after its second
\* parameter otherwise; a completed opcode 6 likewise, jumping when a is
\* zero; neither has changed anything but the position.  (A negative b
\* stands for b cast to usize, as everywhere in this module.)
C14_JumpSetsPointer ==
    /\ (Executed(5) /\ fault = "none") =>
         /\ position = IF RefOperand(pre, 1) # 0
                       THEN RefOperand(pre, 2) ELSE pre.position + 3
         /\ OnlyPointerMoved
    /\ (Executed(6) /\ fault = "none") =>
         /\ position = IF RefOperand(pre, 1) = 0
                       THEN RefOperand(pre, 2) ELSE pre.position + 3
         /\ OnlyPointerMoved

\* The immediate-mode jump program of the tests.
JumpTape ==
    <<3, 3, 1105, -1, 9, 1101, 0, 0, 12, 4, 12, 99, 1>>

\* C14 (b): [3,3,1105,-1,9,1101,0,0,12,4,12,99,1] outputs [0] for input 0
\* and [1] for input 999.
C14_Example ==
    /\ image = JumpTape => fault = "none"
    /\ (image = JumpTape /\ pc = "idle" /\ status = "Halt" /\ entry.status # "Halt") =>
         /\ Len(stored) = 1
         /\ stored[1] = accepted[1]
         /\ ret.out = <<IF stored[1] = 0 THEN 0 ELSE 1>>

\* C14: opcodes 5 and 6 jump to b or step over their two parameters, and
\* change nothing else: (a) and (b) together.
C14_Jumps ==
    C14_JumpSetsPointer /\ C14_Example

\* C14 witness: the jump program, fed 999, has taken its jump from word 2 to
\* the output instruction at word 9.
C14_Witness ==
    /\ image = JumpTape
    /\ Executed(5) /\ fault = "none"
    /\ RefOperand(pre, 1) = 999
    /\ position = 9 /\ pre.position = 2

\* C15 (as claimed): whenever the loop stops, in Halt or in Yield, the
\* invocation returns, for every target t, inside the tape or not: the cell
\* at t as it is at that moment from run_for_target(t), the output buffer of
\* the invocation from run().
C15_ReturnsForEveryTarget ==
    (last.op = "step" /\ status \in {"Halt", "Yield"}) =>
        /\ Returned
        /\ ret.cell = Word(tape, target)
        /\ ret.out = output

\* The opcodes whose last parameter is a destination.
WritingOpcodes ==
    {1, 2, 3, 7, 8}

\* The address a destination parameter word p denotes in the given mode, by
\* the instruction set's definition, in state f.
RefAddress(f, mode, p) ==
    IF mode = "Relative" THEN f.relative_base + p ELSE p

\* C16: fetch-as-destination resolves the destination parameter word p to
\* the address p in Positional and in Immediate mode and to relative base + p
\* in Relative mode; every instruction of opcode 1, 2, 3, 7 or 8 that writes
\* does so at that address, and an Immediate destination leaves the
\* parameter's own slot as it was unless p names that slot.
C16_FetchAsDestination ==
    /\ \A j \in 1..Len(dst) :
         LET p == Word(pre.tape, dst[j].slot)
         IN  /\ dst[j].addr = RefAddress(pre, dst[j].mode, p)
             /\ \A i \in 1..Len(acc) :
                  acc[i].kind = "store" => acc[i].addr = RefAddress(pre, dst[j].mode, p)
             /\ (fault = "none" /\ p # dst[j].slot /\ dst[j].mode # "Relative") =>
                  Word(tape, dst[j].slot) = p
    /\ \A i \in 1..Len(acc) : acc[i].kind = "store" => Len(dst) = 1
    /\ \A o \in WritingOpcodes :
         (Executed(o) /\ fault = "none" /\ (o = 3 => pre.input # <<>>)) =>
             /\ Len(dst) = 1
             /\ dst[1].slot = pre.position + (IF o = 3 THEN 1 ELSE 3)
             /\ \E i \in 1..Len(acc) : acc[i].kind = "store"

\* C16 witness: an add with an Immediate destination has written its sum
\* to the cell its parameter word names, not over the parameter word.
C16_Witness ==
    /\ Executed(1) /\ fault = "none"
    /\ Len(dst) = 1 /\ dst[1].mode = "Immediate"
    /\ Word(tape, dst[1].slot) = Word(pre.tape, dst[1].slot)
    /\ Word(tape, dst[1].addr) # Word(pre.tape, dst[1].addr)
    /\ Word(tape, dst[1].addr) = RefResult(pre, 1)

\* The number of parameters of an instruction, by its opcode.
ParameterCount(o) ==
    CASE o \in {1, 2, 7, 8} -> 3
      [] o \in {5, 6} -> 2
      [] o \in {3, 4, 9} -> 1
      [] OTHER -> 0

\* The last instruction, of opcode o, was a jump that was taken.
Jumped(o) ==
    \/ o = 5 /\ RefOperand(pre, 1) # 0
    \/ o = 6 /\ RefOperand(pre, 1) = 0

\* The last instruction, of opcode o, was an input instruction that blocked.
Blocked(o) ==
    o = 3 /\ pre.input = <<>>

\* C17: an instruction that completes without jumping has read its
\* parameters one after another from the words that follow the opcode word,
\* the destination last, and has left the position 1 + its parameter count
\* further: 4 for opcodes 1, 2, 7, 8, 2 for opcodes 3, 4, 9, 3 for opcodes 5
\* and 6; opcode 99 and a blocked opcode 3 leave the position where it was.
C17_PointerAdvance ==
    \A o \in KnownOpcodes :
        (Executed(o) /\ fault = "none") =>
            /\ Len(args) = ParameterCount(o)
            /\ \A i \in 1..Len(args) : args[i].slot = pre.position + i
            /\ \A j \in 1..Len(dst) : dst[j].slot = pre.position + ParameterCount(o)
            /\ Len(dst) = IF o \in WritingOpcodes THEN 1 ELSE 0
            /\ (~Jumped(o) /\ ~Blocked(o) /\ o # 99) =>
                 position = pre.position + 1 + ParameterCount(o)
            /\ (Blocked(o) \/ o = 99) => position = pre.position

\* C17 witness: a three-parameter instruction that is not the first of the
\* tape has completed, four words further on.
C17_Witness ==
    /\ Executed(2) /\ fault = "none"
    /\ pre.position > 0
    /\ Len(args) = 3
    /\ position = pre.position + 4

\* The relative-base program of the tests.
RelativeBaseTape ==
    <<109, 2000, 109, 19, 99>>

\* C18: the relative base is 0 after construction; a completed opcode 9 adds
\* its operand to it; no other instruction, no add_input, no configuration
\* helper and neither the entry nor the return of a run invocation changes
\* it, so that [109,2000,109,19,99] ends with relative base 2019.
C18_RelativeBase ==
    /\ pc = "new" => relative_base = 0
    /\ runs = 0 => relative_base = 0
    /\ last.op \in {"config", "add_input", "run"} =>
         relative_base = pre.relative_base
    /\ (Executed(9) /\ fault = "none") =>
         relative_base = pre.relative_base + RefOperand(pre, 1)
    /\ (last.op = "step" /\ ~(Executed(9) /\ fault = "none")) =>
         relative_base = pre.relative_base
    /\ (pc = "loop" /\ iter = 0) => relative_base = entry.relative_base
    /\ image = RelativeBaseTape => fault = "none"
    /\ (image = RelativeBaseTape /\ runs >= 1 /\ pc = "idle") =>
         (status = "Halt" /\ relative_base = 2019)

\* C18 witness: the second opcode 9 of [109,2000,109,19,99] has raised the
\* relative base from 2000 to 2019.
C18_Witness ==
    /\ image = RelativeBaseTape
    /\ Executed(9) /\ fault = "none"
    /\ pre.relative_base = 2000
    /\ relative_base = 2019

\* The opcode of the word the position is on (0 outside the tape).
OpcodeHere ==
    Word(tape, position) % 100

\* C19: when a run invocation returns, the status is Halt or Yield; in Yield
\* the input queue is empty and the position is on a word of opcode 3, in
\* Halt it is on a word of opcode 99.  The loop goes on exactly while the
\* status is Run.
C19_StatusAtReturn ==
    /\ (last.op = "step" /\ pc = "idle") =>
         /\ status \in {"Halt", "Yield"}
         /\ status = "Yield" =>
              (input = <<>> /\ InBounds(tape, position) /\ OpcodeHere = 3)
         /\ status = "Halt" =>
              (InBounds(tape, position) /\ OpcodeHere = 99)
    /\ pc = "loop" => status = "Run"
    /\ (last.op = "step" /\ status \in {"Halt", "Yield"}) => pc # "loop"

\* C19 witness: an invocation that resumed a yielded machine has returned in
\* Halt, on a halt instruction further down the tape, with input left over.
C19_Witness ==
    /\ last.op = "step" /\ pc = "idle"
    /\ status = "Halt" /\ position > 0
    /\ entry.ended = "Yield"
    /\ input # <<>>

\* The current invocation was made on a machine in Yield: no input was
\* supplied since it blocked (add_input would have set Run).  Together with
\* Untouched: the caller did nothing at all between the yield and the run.
Reinvoked ==
    runs >= 1 /\ entry.status = "Yield"

\* C20: a run invocation on a yielded machine that was given no input executes
\* the blocked input instruction once more and nothing else: it returns in
\* Yield with the position on that instruction and an empty output buffer,
\* every cell and the relative base as they were; the machine moves on only
\* after add_input.
C20_NoResumeWithoutInput ==
    (Reinvoked /\ Untouched) =>
        /\ entry.input = <<>>
        /\ entry.ended = "Yield"
        /\ tape = entry.tape
        /\ position = entry.position
        /\ InBounds(tape, position) /\ OpcodeHere = 3
        /\ relative_base = entry.relative_base
        /\ output = <<>>
        /\ last.op \in {"run", "step"} => input = <<>>
        /\ fault = "none" => (iter = 0 /\ pc = "loop") \/ (iter = 1 /\ Returned)
        /\ last.op = "step" =>
             /\ Executed(3)
             /\ iter = 1
             /\ status = "Yield"
             /\ LoopStopped
             /\ Returned => ret.out = <<>>
        /\ pc = "idle" => status = IF input = <<>> THEN "Yield" ELSE "Run"

\* C20 witness: a machine that blocked further down its tape and was never
\* given input was run twice more and has yielded again.
C20_Witness ==
    /\ Reinvoked /\ Untouched /\ runs = 3
    /\ last.op = "step" /\ Returned /\ status = "Yield"
    /\ position > 0
    /\ entry.output = <<>>
    /\ accepted = <<>>
====
